---------------------------- MODULE Spec2Model ----------------------------
(***************************************************************************)
(* Model of the useWorkoutLogger hook (src/unnamed/part_000): the score    *)
(* calculator, logWorkout and updateWorkoutLog, run against a record store *)
(* holding the tables workout_logs and exercise_scores.                    *)
(*                                                                         *)
(* Every awaited store call is one step.  A store call either fails (the   *)
(* store returns an error and changes nothing) or is applied as a whole.   *)
(* Optional values (set.id, set.weight, set.distance, set.calories,        *)
(* workout.workout_exercises) are sequences of length at most one: <<>> is *)
(* an absent (undefined or null) value, <<v>> a present one.  The fields   *)
(* time and completed_at are copied through by the code and read by        *)
(* nothing modelled here; they are left out of the rows.                   *)
(***************************************************************************)
EXTENDS Integers, Sequences, FiniteSets, TLC

VARIABLES
    user,             \* useAuth().user: the signed-in user, or NoUser
    logging,          \* useState(false): the logging flag
    workout_logs,     \* table workout_logs: id -> row
    exercise_scores,  \* table exercise_scores: id -> row
    nextLogId,        \* the store's next fresh workout_logs identifier
    nextScoreId,      \* the store's next fresh exercise_scores identifier
    call,             \* per invocation slot: the call in progress, its locals
    messages,         \* MessageBoard: useState<Message[]>([])
    newMessage,       \* MessageBoard: useState('')
    boardLoading,     \* MessageBoard: useState(true), the loading flag
    boardError,       \* MessageBoard: useState<string | null>(null)
    messages_table,   \* table messages: id -> row
    nextMessageId,    \* the store's next fresh messages identifier
    records,          \* ExerciseRecords: useState<EnhancedExerciseScore[]>([])
    recordsLoading,   \* ExerciseRecords: useState(true), the loading flag
    recordsError      \* ExerciseRecords: useState<string | null>(null)

\* the state of the two pages, which the hook never touches
board == <<messages, newMessage, boardLoading, boardError, messages_table,
           nextMessageId>>
leaderboard == <<records, recordsLoading, recordsError>>
pages == <<board, leaderboard>>

vars == <<user, logging, workout_logs, exercise_scores, nextLogId,
          nextScoreId, call, pages>>

-----------------------------------------------------------------------------
(* Bounds *)

\* the most sets one logs argument holds, over all its exercise logs
MaxSets == 3

-----------------------------------------------------------------------------
(* Values *)

Users == {"u1", "u2"}
NoUser == "none"

Absent == <<>>
Some(v) == <<v>>

\* `x || 0` on an optional number
OrZero(x) == IF x = Absent THEN 0 ELSE x[1]

Range(s) == {s[i] : i \in 1..Len(s)}

RECURSIVE SeqsUpTo(_, _)
SeqsUpTo(S, n) ==
    IF n = 0 THEN {<<>>}
    ELSE LET shorter == SeqsUpTo(S, n - 1)
         IN  shorter \cup {Append(s, x) : s \in {t \in shorter : Len(t) = n - 1}, x \in S}

-----------------------------------------------------------------------------
(* Score calculator: calculateTotalScore, part_000:46-69 *)

\* the term one set adds inside the reduce of a branch
DistanceTerm(set) == OrZero(set.distance)
CaloriesTerm(set) == OrZero(set.calories)
WeightRepsTerm(set) == OrZero(set.weight) * set.reps

\* log.sets.reduce((setTotal, set) => setTotal + term(set), 0), left to right
RECURSIVE ReduceSets(_, _, _)
ReduceSets(sets, setTotal, rule) ==
    IF sets = <<>> THEN setTotal
    ELSE ReduceSets(Tail(sets),
                    setTotal + (CASE rule = "distance" -> DistanceTerm(Head(sets))
                                  [] rule = "calories" -> CaloriesTerm(Head(sets))
                                  [] OTHER -> WeightRepsTerm(Head(sets))),
                    rule)

RunBranch(total, log) == total + ReduceSets(log.sets, 0, "distance")
AssaultBikeBranch(total, log) == total + ReduceSets(log.sets, 0, "calories")
\* fault: the weight-training branch is a copy of the Run branch
WeightTrainingBranchAsRun(total, log) == total + ReduceSets(log.sets, 0, "distance")

WeightTrainingBranch(total, log) == total + ReduceSets(log.sets, 0, "weightreps")
DefaultBranch(total, log) == total + ReduceSets(log.sets, 0, "weightreps")

\* workout.workout_exercises?.[index] is defined (index counted from 1 here)
HasExerciseAt(workout, index) ==
    /\ workout.workout_exercises # Absent
    /\ index \in 1..Len(workout.workout_exercises[1])

ExerciseAt(workout, index) == workout.workout_exercises[1][index]

\* fault: the exercise is looked up by the log's exercise_id, not by position
ScoreStepByIdentity(total, log, index, workout) ==
    LET exs == IF workout.workout_exercises = Absent THEN <<>>
               ELSE workout.workout_exercises[1]
        found == {i \in 1..Len(exs) : exs[i].exercise_id = log.exercise_id}
    IN  IF found = {} THEN total
        ELSE LET exercise == exs[CHOOSE i \in found : \A j \in found : i <= j]
             IN  IF exercise.exercise.name = "Run" THEN RunBranch(total, log)
                 ELSE IF exercise.exercise.name = "Assault Bike"
                      THEN AssaultBikeBranch(total, log)
                 ELSE DefaultBranch(total, log)

\* the callback of logs.reduce
ScoreStep(total, log, index, workout) ==
    IF ~HasExerciseAt(workout, index) THEN total
    ELSE IF ExerciseAt(workout, index).exercise.name = "Run"
         THEN RunBranch(total, log)
    ELSE IF ExerciseAt(workout, index).exercise.name = "Assault Bike"
         THEN AssaultBikeBranch(total, log)
    ELSE IF workout.type = "weight training"
         THEN WeightTrainingBranch(total, log)
    ELSE DefaultBranch(total, log)

RECURSIVE ReduceLogs(_, _, _, _)
ReduceLogs(logs, workout, index, total) ==
    IF index > Len(logs) THEN total
    ELSE ReduceLogs(logs, workout, index + 1,
                    ScoreStep(total, logs[index], index, workout))

calculateTotalScore(logs, workout) == ReduceLogs(logs, workout, 1, 0)

-----------------------------------------------------------------------------
(* Row construction and reconciliation arithmetic of the hook *)

\* logs.flatMap(log => log.sets.map(set => row(log, set))), as a sequence of
\* <<log, set>> pairs in flatMap order
RECURSIVE FlatMapSets(_)
FlatMapSets(logs) ==
    IF logs = <<>> THEN <<>>
    ELSE [i \in 1..Len(Head(logs).sets) |-> <<Head(logs), Head(logs).sets[i]>>]
         \o FlatMapSets(Tail(logs))

\* fault: the insert rows carry set.id, as the upsert rows do
InsertRowWithId(u, workoutLogId, log, set) ==
    [id |-> set.id, user_id |-> u, workout_log_id |-> workoutLogId,
     exercise_id |-> log.exercise_id, weight |-> set.weight, reps |-> set.reps,
     distance |-> set.distance, calories |-> set.calories]

\* part_000:101-112: the rows logWorkout inserts (no id field)
InsertRow(u, workoutLogId, log, set) ==
    [id |-> Absent, user_id |-> u, workout_log_id |-> workoutLogId,
     exercise_id |-> log.exercise_id, weight |-> set.weight, reps |-> set.reps,
     distance |-> set.distance, calories |-> set.calories]

insertExerciseScores(u, workoutLogId, logs) ==
    LET pairs == FlatMapSets(logs)
    IN  [i \in 1..Len(pairs) |-> InsertRow(u, workoutLogId, pairs[i][1], pairs[i][2])]

\* fault: the upsert rows drop set.id
UpsertRowNoId(u, workoutLogId, log, set) ==
    [id |-> Absent, user_id |-> u, workout_log_id |-> workoutLogId,
     exercise_id |-> log.exercise_id, weight |-> set.weight, reps |-> set.reps,
     distance |-> set.distance, calories |-> set.calories]

\* part_000:171-183: the rows updateWorkoutLog upserts (id: set.id)
UpsertRow(u, workoutLogId, log, set) ==
    [id |-> set.id, user_id |-> u, workout_log_id |-> workoutLogId,
     exercise_id |-> log.exercise_id, weight |-> set.weight, reps |-> set.reps,
     distance |-> set.distance, calories |-> set.calories]

upsertExerciseScores(u, workoutLogId, logs) ==
    LET pairs == FlatMapSets(logs)
    IN  [i \in 1..Len(pairs) |-> UpsertRow(u, workoutLogId, pairs[i][1], pairs[i][2])]

\* part_000:186: new Set(exerciseScores.filter(score => score.id).map(score => score.id))
currentScoreIds(exerciseScores) ==
    {exerciseScores[i].id[1] : i \in {j \in 1..Len(exerciseScores) : exerciseScores[j].id # Absent}}

\* fault: nothing is deleted
scoreIdsToDeleteNone(existingScoreIds, exerciseScores) == {}

\* fault: every stored row of the log is deleted before the upsert
scoreIdsToDeleteAll(existingScoreIds, exerciseScores) == existingScoreIds

\* part_000:187: Array.from(existingScoreIds).filter(id => !currentScoreIds.has(id))
scoreIdsToDelete(existingScoreIds, exerciseScores) ==
    {id \in existingScoreIds : id \notin currentScoreIds(exerciseScores)}

\* part_000:32-41: the logs startWorkoutLogging returns
initialLogs(workout) ==
    IF workout.workout_exercises = Absent THEN <<>>
    ELSE LET exs == workout.workout_exercises[1]
         IN  [i \in 1..Len(exs) |->
                [exercise_id |-> exs[i].exercise_id,
                 sets |-> [j \in 1..exs[i].sets |->
                             [id |-> Absent,
                              weight |-> Some(OrZero(exs[i].weight)),
                              reps |-> exs[i].reps,
                              distance |-> exs[i].distance,
                              calories |-> exs[i].calories]]]]

-----------------------------------------------------------------------------
(* The record store, as the hook uses it (spec section 6).  Identifiers  *)
(* are server-assigned and never reused.                                   *)

StoredScore(row) ==
    [user_id |-> row.user_id, workout_log_id |-> row.workout_log_id,
     exercise_id |-> row.exercise_id, weight |-> row.weight, reps |-> row.reps,
     distance |-> row.distance, calories |-> row.calories]

NewRowsBefore(rows, i) == Cardinality({j \in 1..(i - 1) : rows[j].id = Absent})
NewRows(rows) == Cardinality({j \in 1..Len(rows) : rows[j].id = Absent})

\* the identifier each row of an insert/upsert batch ends up under
AssignedIds(rows, next) ==
    [i \in 1..Len(rows) |->
        IF rows[i].id # Absent THEN rows[i].id[1] ELSE next + NewRowsBefore(rows, i)]

\* a batch naming one identifier twice is rejected by the store as a whole
HasDuplicateIds(rows) ==
    \E i, j \in 1..Len(rows) : i < j /\ rows[i].id # Absent /\ rows[i].id = rows[j].id

\* insert(rows) and upsert(rows, onConflict: 'id'): a row with an identifier
\* replaces the row stored under it (or is stored under it), a row without
\* one is stored under a fresh identifier
StoreUpsert(table, rows, next) ==
    LET assigned == AssignedIds(rows, next)
    IN  [k \in DOMAIN table \cup Range(assigned) |->
            IF k \in Range(assigned)
            THEN StoredScore(rows[CHOOSE i \in 1..Len(rows) : assigned[i] = k])
            ELSE table[k]]

\* delete().in('id', ids)
StoreDelete(table, ids) == [k \in DOMAIN table \ ids |-> table[k]]

\* select('id').eq('workout_log_id', workoutLogId)
StoreSelectIds(table, workoutLogId) ==
    {k \in DOMAIN table : table[k].workout_log_id = workoutLogId}

\* the rows update(...).eq('id', workoutLogId).eq('user_id', u) matches
MatchedLogs(table, workoutLogId, u) ==
    {k \in DOMAIN table : k = workoutLogId /\ table[k].user_id = u}

StoreErrors == {"E1", "E2"}
NoRowsError == "PGRST116"       \* .single() on a result that is not one row

-----------------------------------------------------------------------------
(* Inputs *)

Exercise(id, name, nsets) ==
    [exercise_id |-> id, exercise |-> [name |-> name], sets |-> nsets,
     weight |-> Some(2), reps |-> 3, distance |-> Absent, calories |-> Absent]

Workouts ==
    {[id |-> "w1", type |-> "weight training",
      workout_exercises |-> Some(<<Exercise("x1", "Bench Press", 2),
                                   Exercise("x2", "Run", 1)>>)]}

\* the exercise of the exercise log at each position of a logs argument
ExerciseOrder == <<"x1", "x2">>
NotesChoices == {"", "n"}

Performances ==
    {[weight |-> Some(2), reps |-> 3, distance |-> Absent, calories |-> Absent]}

LoggedSets(ids, perfs) ==
    {[id |-> i, weight |-> pf.weight, reps |-> pf.reps, distance |-> pf.distance,
      calories |-> pf.calories] : i \in {Absent} \cup {Some(k) : k \in ids},
                                  pf \in perfs}

\* within one exercise log the sets are listed by ascending identifier (one
\* identifier may repeat), the sets without identifier last
Listed(ss) ==
    \A i \in 1..Len(ss), j \in 1..Len(ss) :
        i < j => /\ ss[i].id = Absent => ss[j].id = Absent
                 /\ (ss[i].id # Absent /\ ss[j].id # Absent) => ss[i].id[1] <= ss[j].id[1]

SetLists(ids, perfs, n) == {ss \in SeqsUpTo(LoggedSets(ids, perfs), n) : Listed(ss)}

\* logs arguments of at most Len(ExerciseOrder) exercise logs and MaxSets sets
LogsOver(ids, perfs) ==
    {<<>>}
    \cup {<<[exercise_id |-> ExerciseOrder[1], sets |-> a]>> :
             a \in SetLists(ids, perfs, MaxSets)}
    \cup UNION {{<<[exercise_id |-> ExerciseOrder[1], sets |-> a],
                   [exercise_id |-> ExerciseOrder[2], sets |-> b]>> :
                       b \in SetLists(ids, perfs, MaxSets - Len(a))} :
                 a \in SetLists(ids, perfs, MaxSets)}

LogsChoices(ids) == LogsOver(ids, Performances)

\* inputs of the score calculator alone: every pairing of the three kinds of
\* exercise name with both workout types, sets with fields present and absent
ScoreNames == {"Run", "Assault Bike", "Bench Press"}
ScoreTypes == {"weight training", "cardio"}

ScoreWorkouts ==
    {[id |-> "w", type |-> t, workout_exercises |-> e] :
        t \in ScoreTypes,
        e \in {Absent} \cup
              {Some(x) : x \in SeqsUpTo({Exercise("x1", n, 1) : n \in ScoreNames},
                                        Len(ExerciseOrder))}}

ScorePerformances ==
    {[weight |-> Absent, reps |-> 3, distance |-> Absent, calories |-> Absent],
     [weight |-> Some(2), reps |-> 3, distance |-> Some(5), calories |-> Some(7)],
     [weight |-> Some(4), reps |-> 1, distance |-> Absent, calories |-> Some(1)]}

ScoreLogs == LogsOver({}, ScorePerformances)

\* inputs for the pairing of logs with workout exercises: the exercise ids of
\* the workout's exercises and of the logs vary independently of position
ExerciseIds == Range(ExerciseOrder)

PairingWorkouts ==
    {[id |-> "w", type |-> t, workout_exercises |-> e] :
        t \in ScoreTypes,
        e \in {Absent} \cup
              {Some(x) : x \in SeqsUpTo({Exercise(i, n, 1) : i \in ExerciseIds,
                                                              n \in ScoreNames},
                                        Len(ExerciseOrder))}}

PairingPerformances ==
    {[weight |-> Some(2), reps |-> 3, distance |-> Some(5), calories |-> Some(7)],
     [weight |-> Absent, reps |-> 1, distance |-> Some(1), calories |-> Absent]}

Relabel(logs, ids) == [i \in 1..Len(logs) |-> [logs[i] EXCEPT !.exercise_id = ids[i]]]

PairingLogs ==
    {Relabel(logs, ids) : logs \in LogsOver({}, PairingPerformances),
                          ids \in [1..Len(ExerciseOrder) -> ExerciseIds]}

-----------------------------------------------------------------------------
(* State *)

Procs == {1}

\* a slot before any call.  pre*, storeError and completed are history: the
\* store and the flag as the call found them, the first error the store
\* returned and the store calls that came back without error
IdleCall ==
    [pc |-> "idle", op |-> "none", user |-> NoUser,
     workout |-> CHOOSE w \in Workouts : TRUE, logs |-> <<>>, notes |-> "",
     workoutLogId |-> 0, totalScore |-> 0, workoutLog |-> Absent,
     existingScoreIds |-> {}, exerciseScores |-> <<>>, scoreIdsToDelete |-> {},
     result |-> "pending", returned |-> <<>>,
     issued |-> <<>>, completed |-> <<>>, assigned |-> <<>>, storeError |-> Absent,
     repeat |-> FALSE,
     preLogs |-> <<>>, preScores |-> <<>>, preNextScoreId |-> 0, preLogging |-> FALSE]

InitScore(u, workoutLogId, x) ==
    [user_id |-> u, workout_log_id |-> workoutLogId, exercise_id |-> x,
     weight |-> Some(1), reps |-> 3, distance |-> Absent, calories |-> Absent]

InitLog(u) ==
    [user_id |-> u, workout_id |-> "w1", notes |-> "", score |-> 0, total |-> 0]

\* what earlier sessions left in the store: nothing, or log 1 of u1 with three
\* sets and log 2 of u2 with one set, a fifth set having been deleted since
InitStores ==
    {[logs |-> <<>>, scores |-> <<>>, nextLogId |-> 1, nextScoreId |-> 1],
     [logs |-> <<InitLog("u1"), InitLog("u2")>>,
      scores |-> <<InitScore("u1", 1, "x1"), InitScore("u1", 1, "x1"),
                   InitScore("u1", 1, "x2"), InitScore("u2", 2, "x1")>>,
      nextLogId |-> 3, nextScoreId |-> 6]}

\* the pages as they are constructed: every useState at its initial value
PagesInit ==
    /\ messages = <<>>
    /\ newMessage = <<>>
    /\ boardLoading = TRUE
    /\ boardError = Absent
    /\ messages_table = <<>>
    /\ nextMessageId = 1
    /\ records = <<>>
    /\ recordsLoading = TRUE
    /\ recordsError = Absent

Init ==
    /\ PagesInit
    /\ user = NoUser
    /\ logging = FALSE
    /\ \E s \in InitStores :
         /\ workout_logs = s.logs
         /\ exercise_scores = s.scores
         /\ nextLogId = s.nextLogId
         /\ nextScoreId = s.nextScoreId
    /\ call = [p \in Procs |-> IdleCall]

store == <<workout_logs, exercise_scores, nextLogId, nextScoreId>>

\* a slot runs one logging session: startWorkoutLogging (optional), then
\* logWorkout or updateWorkoutLog
CanStart(p) ==
    \/ call[p].pc = "idle"
    \/ call[p].pc = "done" /\ call[p].op = "startWorkoutLogging"

\* a fresh invocation: arguments bound, the user of this render captured
NewCall(op, w, logs, notes, workoutLogId) ==
    [IdleCall EXCEPT !.op = op, !.user = user, !.workout = w, !.logs = logs,
                     !.notes = notes, !.workoutLogId = workoutLogId,
                     !.preLogs = workout_logs, !.preScores = exercise_scores,
                     !.preNextScoreId = nextScoreId, !.preLogging = logging]

\* fault: the guard is missing
signedInAlways(u) == TRUE

\* if (!user) throw ...: the guard passes
signedIn(u) == u # NoUser

\* fault: the error of a store call is not looked at
thrownNever(error) == FALSE

\* if (error) throw error;
thrown(error) == error # Absent

\* fault: catch logs the error and does not throw it again
rethrowSwallowed(error) == "ok"

\* catch (error) { console.error(...); throw error; }
rethrow(error) == error

\* fault: no finally block
finallyLoggingKept(current) == current

\* finally { setLogging(false); }
finallyLogging(current) == FALSE

\* the outcomes of one store call: no error, or one of the store's errors
Outcomes == {Absent} \cup {Some(e) : e \in StoreErrors}

\* after a store call inside the try block: throw its error into catch and
\* finally, or go on to nextPc ("done": return workoutLog)
AfterStoreCall(p, c, error, nextPc) ==
    LET c1 == [c EXCEPT !.storeError = IF @ = Absent THEN error ELSE @,
                        !.completed = IF error = Absent
                                      THEN Append(@, c.issued[Len(c.issued)]) ELSE @]
    IN  IF thrown(error)
        THEN /\ call' = [call EXCEPT ![p] = [c1 EXCEPT !.pc = "done",
                                                       !.result = rethrow(error[1])]]
             /\ logging' = finallyLogging(logging)
        ELSE IF nextPc = "done"
        THEN /\ call' = [call EXCEPT ![p] = [c1 EXCEPT !.pc = "done", !.result = "ok"]]
             /\ logging' = finallyLogging(logging)
        ELSE /\ call' = [call EXCEPT ![p] = [c1 EXCEPT !.pc = nextPc]]
             /\ UNCHANGED logging

-----------------------------------------------------------------------------
(* Session *)

\* the auth context re-renders the hook with another user; calls in flight
\* keep the user they captured, so the change is taken between calls
NoCallInFlight == \A p \in Procs : call[p].pc \in {"idle", "done"}

SignIn(u) ==
    /\ NoCallInFlight
    /\ user # u
    /\ user' = u
    /\ UNCHANGED <<logging, store, call, pages>>

SignOut ==
    /\ NoCallInFlight
    /\ user # NoUser
    /\ user' = NoUser
    /\ UNCHANGED <<logging, store, call, pages>>

-----------------------------------------------------------------------------
(* startWorkoutLogging, part_000:24-44 *)

StartWorkoutLogging(p, w) ==
    /\ CanStart(p)
    /\ LET c == NewCall("startWorkoutLogging", w, <<>>, "", 0)
       IN  IF ~signedIn(user)
           THEN /\ call' = [call EXCEPT ![p] = [c EXCEPT !.pc = "done",
                                                        !.result = "auth:start"]]
                /\ UNCHANGED logging
           ELSE /\ call' = [call EXCEPT ![p] = [c EXCEPT !.pc = "done",
                                                        !.result = "ok",
                                                        !.returned = initialLogs(w)]]
                /\ logging' = TRUE
    /\ UNCHANGED <<user, store, pages>>

-----------------------------------------------------------------------------
(* logWorkout, part_000:71-127 *)

\* part_000:76-82: the guard, then the score
LogWorkout(p, w, logs, notes) ==
    /\ CanStart(p)
    /\ LET c == NewCall("logWorkout", w, logs, notes, 0)
       IN  call' = [call EXCEPT ![p] =
                IF ~signedIn(user)
                THEN [c EXCEPT !.pc = "done", !.result = "auth:log"]
                ELSE [c EXCEPT !.pc = "lw_insertLog",
                               !.totalScore = calculateTotalScore(logs, w)]]
    /\ UNCHANGED <<user, logging, store, pages>>

\* part_000:87-92: the row logWorkout inserts into workout_logs
newWorkoutLog(c) ==
    [user_id |-> c.user, workout_id |-> c.workout.id, notes |-> c.notes,
     score |-> c.totalScore, total |-> c.totalScore]

\* part_000:85-98: insert(...).select().single() on workout_logs
LwInsertLog(p) ==
    /\ call[p].pc = "lw_insertLog"
    /\ \E error \in Outcomes :
        LET c == [call[p] EXCEPT !.issued = Append(@, "insert workout_logs")]
        IN  IF error # Absent
            THEN /\ AfterStoreCall(p, c, error, "lw_insertScores")
                 /\ UNCHANGED store
            ELSE /\ workout_logs' =
                       [k \in DOMAIN workout_logs \cup {nextLogId} |->
                           IF k = nextLogId THEN newWorkoutLog(c) ELSE workout_logs[k]]
                 /\ nextLogId' = nextLogId + 1
                 /\ AfterStoreCall(p,
                        [c EXCEPT !.workoutLog =
                            Some([id |-> nextLogId, row |-> newWorkoutLog(c)])],
                        error, "lw_insertScores")
                 /\ UNCHANGED <<exercise_scores, nextScoreId>>
    /\ UNCHANGED <<user, pages>>

\* part_000:101-120: insert(exerciseScores) on exercise_scores, return workoutLog
LwInsertScores(p) ==
    /\ call[p].pc = "lw_insertScores"
    /\ \E error \in Outcomes :
        LET rows == insertExerciseScores(call[p].user, call[p].workoutLog[1].id,
                                         call[p].logs)
            c == [call[p] EXCEPT !.issued = Append(@, "insert exercise_scores"),
                                 !.exerciseScores = rows]
        IN  IF error # Absent
            THEN /\ AfterStoreCall(p, c, error, "done")
                 /\ UNCHANGED store
            ELSE /\ exercise_scores' = StoreUpsert(exercise_scores, rows, nextScoreId)
                 /\ nextScoreId' = nextScoreId + NewRows(rows)
                 /\ AfterStoreCall(p, [c EXCEPT !.assigned = AssignedIds(rows, nextScoreId)],
                                   error, "done")
                 /\ UNCHANGED <<workout_logs, nextLogId>>
    /\ UNCHANGED <<user, pages>>

-----------------------------------------------------------------------------
(* updateWorkoutLog, part_000:129-213 *)

\* part_000:135-141: the guard, then the score
BeginUpdate(p, workoutLogId, w, logs, notes, repeat) ==
    /\ LET c == [NewCall("updateWorkoutLog", w, logs, notes, workoutLogId)
                    EXCEPT !.repeat = repeat]
       IN  call' = [call EXCEPT ![p] =
                IF ~signedIn(user)
                THEN [c EXCEPT !.pc = "done", !.result = "auth:update"]
                ELSE [c EXCEPT !.pc = "up_updateLog",
                               !.totalScore = calculateTotalScore(logs, w)]]
    /\ UNCHANGED <<user, logging, store, pages>>

UpdateWorkoutLog(p, workoutLogId, w, logs, notes) ==
    /\ CanStart(p)
    /\ BeginUpdate(p, workoutLogId, w, logs, notes, FALSE)

\* part_000:146-151: the fields update(...) sets
updatedWorkoutLog(row, c) ==
    [row EXCEPT !.notes = c.notes, !.score = c.totalScore, !.total = c.totalScore]

\* fault: the update is scoped by the log identifier alone
updateFilterById(table, c) == {k \in DOMAIN table : k = c.workoutLogId}

\* part_000:152-153: the rows the update is scoped to
updateFilter(table, c) == MatchedLogs(table, c.workoutLogId, c.user)

\* part_000:144-157: update(...).eq('id').eq('user_id').select().single();
\* .single() turns a result that is not exactly one row into an error
UpUpdateLog(p) ==
    /\ call[p].pc = "up_updateLog"
    /\ \E error \in Outcomes :
        LET c == [call[p] EXCEPT !.issued = Append(@, "update workout_logs")]
            matched == updateFilter(workout_logs, c)
        IN  IF error # Absent
            THEN /\ AfterStoreCall(p, c, error, "up_fetch")
                 /\ UNCHANGED store
            ELSE /\ workout_logs' =
                       [k \in DOMAIN workout_logs |->
                           IF k \in matched THEN updatedWorkoutLog(workout_logs[k], c)
                                            ELSE workout_logs[k]]
                 /\ IF Cardinality(matched) # 1
                    THEN AfterStoreCall(p, c, Some(NoRowsError), "up_fetch")
                    ELSE AfterStoreCall(p,
                            [c EXCEPT !.workoutLog =
                                Some([id |-> c.workoutLogId,
                                      row |-> updatedWorkoutLog(
                                                  workout_logs[c.workoutLogId], c)])],
                            error, "up_fetch")
                 /\ UNCHANGED <<exercise_scores, nextLogId, nextScoreId>>
    /\ UNCHANGED <<user, pages>>

\* fault: the delete block is skipped
afterFetchNoDelete(toDelete) == "up_upsert"

\* part_000:190: if (scoreIdsToDelete.length > 0) delete, else straight to upsert
afterFetch(toDelete) == IF toDelete # {} THEN "up_delete" ELSE "up_upsert"

\* part_000:160-190: select('id').eq('workout_log_id'), then the local
\* computation up to scoreIdsToDelete
UpFetch(p) ==
    /\ call[p].pc = "up_fetch"
    /\ \E error \in Outcomes :
        LET c == [call[p] EXCEPT !.issued = Append(@, "select exercise_scores")]
            existing == StoreSelectIds(exercise_scores, c.workoutLogId)
            rows == upsertExerciseScores(c.user, c.workoutLogId, c.logs)
            toDelete == scoreIdsToDelete(existing, rows)
        IN  IF error # Absent
            THEN AfterStoreCall(p, c, error, "up_delete")
            ELSE AfterStoreCall(p, [c EXCEPT !.existingScoreIds = existing,
                                             !.exerciseScores = rows,
                                             !.scoreIdsToDelete = toDelete],
                                error, afterFetch(toDelete))
    /\ UNCHANGED <<user, store, pages>>

\* part_000:191-196: delete().in('id', scoreIdsToDelete)
UpDelete(p) ==
    /\ call[p].pc = "up_delete"
    /\ \E error \in Outcomes :
        LET c == [call[p] EXCEPT !.issued = Append(@, "delete exercise_scores")]
        IN  IF error # Absent
            THEN /\ AfterStoreCall(p, c, error, "up_upsert")
                 /\ UNCHANGED store
            ELSE /\ exercise_scores' = StoreDelete(exercise_scores, c.scoreIdsToDelete)
                 /\ AfterStoreCall(p, c, error, "up_upsert")
                 /\ UNCHANGED <<workout_logs, nextLogId, nextScoreId>>
    /\ UNCHANGED <<user, pages>>

DuplicateError == "21000"       \* the batch would affect one row twice

\* part_000:200-206: upsert(exerciseScores, { onConflict: 'id' }), return workoutLog
UpUpsert(p) ==
    /\ call[p].pc = "up_upsert"
    /\ \E error \in Outcomes :
        LET c == [call[p] EXCEPT !.issued = Append(@, "upsert exercise_scores")]
            rows == upsertExerciseScores(c.user, c.workoutLogId, c.logs)
        IN  IF error # Absent
            THEN /\ AfterStoreCall(p, c, error, "done")
                 /\ UNCHANGED store
            ELSE IF HasDuplicateIds(rows)
            THEN /\ AfterStoreCall(p, c, Some(DuplicateError), "done")
                 /\ UNCHANGED store
            ELSE /\ exercise_scores' = StoreUpsert(exercise_scores, rows, nextScoreId)
                 /\ nextScoreId' = nextScoreId + NewRows(rows)
                 /\ AfterStoreCall(p, [c EXCEPT !.assigned = AssignedIds(rows, nextScoreId)],
                                   error, "done")
                 /\ UNCHANGED <<workout_logs, nextLogId>>
    /\ UNCHANGED <<user, pages>>

\* the same logs, each set now carrying the identifier its row was stored under
logsWithIds(logs, assigned) ==
    [i \in 1..Len(logs) |->
        [logs[i] EXCEPT !.sets =
            [j \in 1..Len(logs[i].sets) |->
                [logs[i].sets[j] EXCEPT !.id =
                    Some(assigned[Len(FlatMapSets(SubSeq(logs, 1, i - 1))) + j])]]]]

\* the caller repeats a successful update with the identifiers now stored
UpdateAgain(p) ==
    /\ call[p].pc = "done"
    /\ call[p].op = "updateWorkoutLog"
    /\ call[p].result = "ok"
    /\ ~call[p].repeat
    /\ BeginUpdate(p, call[p].workoutLogId, call[p].workout,
                   logsWithIds(call[p].logs, call[p].assigned), call[p].notes, TRUE)

-----------------------------------------------------------------------------
(* Specification *)

\* the identifiers a caller can hold: every one the store has issued, and for
\* a log one it has not
KnownLogIds == 1..nextLogId
KnownScoreIds == 1..(nextScoreId - 1)

Next ==
    \/ \E u \in Users : SignIn(u)
    \/ SignOut
    \/ \E p \in Procs, w \in Workouts : StartWorkoutLogging(p, w)
    \/ \E p \in Procs :
         /\ CanStart(p)
         /\ \E logs \in LogsChoices(KnownScoreIds), w \in Workouts, notes \in NotesChoices :
              LogWorkout(p, w, logs, notes)
    \/ \E p \in Procs : LwInsertLog(p)
    \/ \E p \in Procs : LwInsertScores(p)
    \/ \E p \in Procs :
         /\ CanStart(p)
         /\ \E logs \in LogsChoices(KnownScoreIds), id \in KnownLogIds, w \in Workouts,
               notes \in NotesChoices :
              UpdateWorkoutLog(p, id, w, logs, notes)
    \/ \E p \in Procs : UpUpdateLog(p)
    \/ \E p \in Procs : UpFetch(p)
    \/ \E p \in Procs : UpDelete(p)
    \/ \E p \in Procs : UpUpsert(p)
    \/ \E p \in Procs : UpdateAgain(p)

Spec == Init /\ [][Next]_vars

-----------------------------------------------------------------------------
(* The score calculator on its own: every input of ScoreLogs x ScoreWorkouts *)

InitScoring ==
    /\ PagesInit
    /\ user = "u1"
    /\ logging = FALSE
    /\ workout_logs = <<>>
    /\ exercise_scores = <<>>
    /\ nextLogId = 1
    /\ nextScoreId = 1
    /\ \E w \in ScoreWorkouts, logs \in ScoreLogs :
         call = [p \in Procs |->
                    [IdleCall EXCEPT !.pc = "score", !.op = "calculateTotalScore",
                                     !.user = "u1", !.workout = w, !.logs = logs]]

\* part_000:46-69, applied to the arguments of the slot
CalculateTotalScore(p) ==
    /\ call[p].pc = "score"
    /\ call' = [call EXCEPT ![p].pc = "scored",
                            ![p].totalScore = calculateTotalScore(call[p].logs,
                                                                  call[p].workout)]
    /\ UNCHANGED <<user, logging, store, pages>>

NextScoring == \E p \in Procs : CalculateTotalScore(p)

SpecScore == InitScoring /\ [][NextScoring]_vars

\* the same calculator over PairingLogs x PairingWorkouts
InitPairing ==
    /\ PagesInit
    /\ user = "u1"
    /\ logging = FALSE
    /\ workout_logs = <<>>
    /\ exercise_scores = <<>>
    /\ nextLogId = 1
    /\ nextScoreId = 1
    /\ \E w \in PairingWorkouts, logs \in PairingLogs :
         call = [p \in Procs |->
                    [IdleCall EXCEPT !.pc = "score", !.op = "calculateTotalScore",
                                     !.user = "u1", !.workout = w, !.logs = logs]]

SpecPairing == InitPairing /\ [][NextScoring]_vars

-----------------------------------------------------------------------------
(* Two updateWorkoutLog calls of the owner for log 1, in flight together:  *)
(* nothing in the hook keeps a second call from starting while the first   *)
(* awaits the store, and the store takes their calls in any order          *)

ConcurrentProcs == {1, 2}

\* logs arguments of one exercise log of at most two sets over the rows of log 1
ConcurrentLogs ==
    {logs \in LogsOver({1, 2, 3}, Performances) :
        Len(logs) <= 1 /\ \A i \in 1..Len(logs) : Len(logs[i].sets) <= 2}

InitConcurrent ==
    /\ PagesInit
    /\ user = "u1"
    /\ logging = FALSE
    /\ \E s \in InitStores :
         /\ s.logs # <<>>
         /\ workout_logs = s.logs
         /\ exercise_scores = s.scores
         /\ nextLogId = s.nextLogId
         /\ nextScoreId = s.nextScoreId
    /\ call = [p \in ConcurrentProcs |-> IdleCall]

NextConcurrent ==
    \/ \E p \in ConcurrentProcs :
         /\ CanStart(p)
         /\ \E logs \in ConcurrentLogs, w \in Workouts, notes \in NotesChoices :
              UpdateWorkoutLog(p, 1, w, logs, notes)
    \/ \E p \in ConcurrentProcs : UpUpdateLog(p)
    \/ \E p \in ConcurrentProcs : UpFetch(p)
    \/ \E p \in ConcurrentProcs : UpDelete(p)
    \/ \E p \in ConcurrentProcs : UpUpsert(p)

SpecConcurrent == InitConcurrent /\ [][NextConcurrent]_vars

-----------------------------------------------------------------------------
(* MessageBoard, MessageBoard.tsx:21-83.  A handler invoked by a click is   *)
(* the closure of the render on screen: it reads user, newMessage and        *)
(* messages as that render had them, also after an await                     *)

\* message texts: strings over a blank and a letter
Chars == {" ", "a"}
Whitespace == {" "}
Texts == SeqsUpTo(Chars, 2)

RECURSIVE TrimStart(_)
TrimStart(text) ==
    IF text # <<>> /\ Head(text) \in Whitespace THEN TrimStart(Tail(text)) ELSE text

RECURSIVE TrimEnd(_)
TrimEnd(text) ==
    IF text # <<>> /\ text[Len(text)] \in Whitespace
    THEN TrimEnd(SubSeq(text, 1, Len(text) - 1))
    ELSE text

\* String.prototype.trim
trim(text) == TrimEnd(TrimStart(text))

\* the Post Message button is not disabled while a post is pending: a second
\* click can come before the first insert has answered
BoardProcs == {1, 2}

BoardIdleCall ==
    [pc |-> "idle", op |-> "none", user |-> NoUser, messages |-> <<>>,
     newMessage |-> <<>>, data |-> Absent, result |-> "pending", issued |-> <<>>]

MessageRow(u, content) == [content |-> content, profile_id |-> u]

\* a row as select(`*, profiles (profile_name)`) returns it
Message(id, row) == [id |-> id, content |-> row.content, profile_id |-> row.profile_id]

\* what earlier visits left in the table: nothing, or one message of u2
InitMessages == {<<>>, <<MessageRow("u2", <<"a">>)>>}

InitBoard ==
    /\ user \in {NoUser, "u1"}
    /\ logging = FALSE
    /\ workout_logs = <<>>
    /\ exercise_scores = <<>>
    /\ nextLogId = 1
    /\ nextScoreId = 1
    /\ messages = <<>>
    /\ newMessage = <<>>
    /\ boardLoading = TRUE
    /\ boardError = Absent
    /\ messages_table \in InitMessages
    /\ nextMessageId = Len(messages_table) + 1
    /\ records = <<>>
    /\ recordsLoading = TRUE
    /\ recordsError = Absent
    /\ call = [p \in BoardProcs |-> BoardIdleCall]

hookState == <<logging, workout_logs, exercise_scores, nextLogId, nextScoreId>>

\* select(...).order('created_at', { ascending: false }): newest first
SelectMessages(table) ==
    [i \in 1..Cardinality(DOMAIN table) |->
        LET id == CHOOSE k \in DOMAIN table :
                      Cardinality({j \in DOMAIN table : j > k}) = i - 1
        IN  Message(id, table[id])]

\* MessageBoard.tsx:28-53: the fetch of the mount effect answers
FetchMessages ==
    /\ boardLoading
    /\ \E error \in Outcomes :
         IF thrown(error)
         THEN /\ boardError' = Some("Failed to load messages. Please try again later.")
              /\ UNCHANGED messages
         ELSE /\ messages' = SelectMessages(messages_table)
              /\ UNCHANGED boardError
    /\ boardLoading' = FALSE
    /\ UNCHANGED <<user, hookState, call, newMessage, messages_table, nextMessageId,
                   leaderboard>>

\* MessageBoard.tsx:112: onChange={(e) => setNewMessage(e.target.value)}
TypeMessage(text) ==
    /\ ~boardLoading
    /\ newMessage # text
    /\ newMessage' = text
    /\ UNCHANGED <<user, hookState, call, messages, boardLoading, boardError,
                   messages_table, nextMessageId, leaderboard>>

\* MessageBoard.tsx:55-57: the click, the two guards
HandlePostMessage(p) ==
    /\ ~boardLoading
    /\ call[p].pc = "idle"
    /\ LET c == [BoardIdleCall EXCEPT !.op = "handlePostMessage", !.user = user,
                                      !.messages = messages, !.newMessage = newMessage]
       IN  call' = [call EXCEPT ![p] =
                IF c.user = NoUser THEN [c EXCEPT !.pc = "done", !.result = "returned"]
                ELSE IF trim(c.newMessage) = <<>>
                     THEN [c EXCEPT !.pc = "done", !.result = "returned"]
                ELSE [c EXCEPT !.pc = "insert"]]
    /\ UNCHANGED <<user, hookState, pages>>

\* MessageBoard.tsx:77: setMessages([data, ...messages]), messages being the
\* list of the render the handler was created in
postedMessages(data, c) == <<data>> \o c.messages

\* MessageBoard.tsx:60-82: the insert answers
InsertMessage(p) ==
    /\ call[p].pc = "insert"
    /\ \E error \in Outcomes :
        LET c == [call[p] EXCEPT !.issued = Append(@, "insert messages")]
            row == MessageRow(c.user, c.newMessage)
            data == Message(nextMessageId, row)
        IN  IF thrown(error)
            THEN /\ boardError' = Some("Failed to post message. Please try again later.")
                 /\ call' = [call EXCEPT ![p] = [c EXCEPT !.pc = "done",
                                                          !.result = "caught"]]
                 /\ UNCHANGED <<messages, newMessage, messages_table, nextMessageId>>
            ELSE /\ messages_table' =
                       [k \in DOMAIN messages_table \cup {nextMessageId} |->
                           IF k = nextMessageId THEN row ELSE messages_table[k]]
                 /\ nextMessageId' = nextMessageId + 1
                 /\ messages' = postedMessages(data, c)
                 /\ newMessage' = <<>>
                 /\ call' = [call EXCEPT ![p] = [c EXCEPT !.pc = "done", !.result = "ok",
                                                          !.data = Some(data)]]
                 /\ UNCHANGED boardError
    /\ UNCHANGED <<user, hookState, boardLoading, leaderboard>>

NextBoard ==
    \/ FetchMessages
    \/ \E text \in Texts : TypeMessage(text)
    \/ \E p \in BoardProcs : HandlePostMessage(p)
    \/ \E p \in BoardProcs : InsertMessage(p)

SpecBoard == InitBoard /\ [][NextBoard]_vars

-----------------------------------------------------------------------------
(* ExerciseRecords, ExerciseRecords.tsx:14-146: the fetch of the mount      *)
(* effect, three store calls and the aggregation after the last answer       *)

\* table exercises: id -> row; no row for "e8", two exercises named "Run"
ExercisesTable ==
    [id \in {"e1", "e2", "e3", "e4", "e5", "e6", "e7"} |->
        [name |-> CASE id = "e1" -> "Run"
                    [] id = "e2" -> "Assault Bike"
                    [] id = "e3" -> "Bench Press"
                    [] id = "e4" -> "Squat"
                    [] id = "e5" -> "Deadlift"
                    [] id = "e6" -> "Row"
                    [] id = "e7" -> "Run"]]

ScoreRow(exercise_id, weight, distance, calories, created_at, workout_id) ==
    [exercise_id |-> exercise_id, weight |-> weight, reps |-> 3, distance |-> distance,
     calories |-> calories, created_at |-> created_at, workout_id |-> workout_id]

\* the rows the table exercise_scores can hold, by identifier
ScoreUniverse ==
    <<ScoreRow("e1", Some(9), Some(5), Absent, 1, Absent),
      ScoreRow("e1", Absent, Some(7), Absent, 2, Absent),
      ScoreRow("e7", Absent, Some(7), Absent, 3, Absent),
      ScoreRow("e2", Some(3), Absent, Absent, 4, Absent),
      ScoreRow("e2", Absent, Absent, Some(4), 5, Some(1)),
      ScoreRow("e3", Some(2), Absent, Absent, 6, Absent),
      ScoreRow("e3", Absent, Some(9), Absent, 7, Absent),
      ScoreRow("e4", Some(1), Absent, Absent, 8, Absent),
      ScoreRow("e5", Some(1), Absent, Absent, 9, Absent),
      ScoreRow("e6", Some(3), Absent, Absent, 10, Some(1)),
      ScoreRow("e8", Some(9), Absent, Absent, 11, Absent),
      ScoreRow("e3", Some(2), Absent, Absent, 12, Absent)>>

\* table workout_logs as the page reads it: empty, or log 1 completed at 6
RecordsWorkoutLogs == {<<>>, <<[workout_type |-> "strength", completed_at |-> 6]>>}

RecordsProcs == {1}

RecordsIdleCall ==
    [pc |-> "scores", op |-> "fetchExerciseRecords", scores |-> <<>>,
     exercises |-> <<>>, result |-> "pending", issued |-> <<>>]

InitRecords ==
    /\ user = NoUser
    /\ logging = FALSE
    /\ workout_logs \in RecordsWorkoutLogs
    /\ \E ids \in SUBSET DOMAIN ScoreUniverse :
         exercise_scores = [k \in ids |-> ScoreUniverse[k]]
    /\ nextLogId = 1
    /\ nextScoreId = 1
    /\ messages = <<>>
    /\ newMessage = <<>>
    /\ boardLoading = TRUE
    /\ boardError = Absent
    /\ messages_table = <<>>
    /\ nextMessageId = 1
    /\ records = <<>>
    /\ recordsLoading = TRUE
    /\ recordsError = Absent
    /\ call = [p \in RecordsProcs |-> RecordsIdleCall]

\* select('*').order('created_at', { ascending: false }): newest first
SelectScores(table) ==
    [i \in 1..Cardinality(DOMAIN table) |->
        LET id == CHOOSE k \in DOMAIN table :
                      Cardinality({j \in DOMAIN table :
                                      table[j].created_at > table[k].created_at}) = i - 1
        IN  [id |-> id] @@ table[id]]

\* ExerciseRecords.tsx:39-45: select('*').in('id', exerciseIds)
SelectExercises(scores) ==
    [id \in {scores[i].exercise_id : i \in 1..Len(scores)} \cap DOMAIN ExercisesTable |->
        ExercisesTable[id]]

\* ExerciseRecords.tsx:50-53
workoutIds(scores) ==
    {scores[i].workout_id[1] : i \in {j \in 1..Len(scores) : scores[j].workout_id # Absent}}

\* ExerciseRecords.tsx:58-73: select(...).in('id', workoutIds), keyed by id
SelectWorkoutInfo(table, ids) ==
    [id \in ids \cap DOMAIN table |->
        [type |-> table[id].workout_type, completed_at |-> table[id].completed_at]]

\* ExerciseRecords.tsx:77-87
enhance(score, exercises, workoutInfo) ==
    LET known == score.workout_id # Absent /\ score.workout_id[1] \in DOMAIN workoutInfo
    IN  [exercise |-> IF score.exercise_id \in DOMAIN exercises
                      THEN Some([id |-> score.exercise_id,
                                 name |-> exercises[score.exercise_id].name])
                      ELSE Absent,
         workout_type |-> IF known THEN workoutInfo[score.workout_id[1]].type ELSE "",
         date |-> IF known THEN workoutInfo[score.workout_id[1]].completed_at
                           ELSE score.created_at] @@ score

\* ExerciseRecords.tsx:92-101: the keys of exerciseGroups, in insertion order
RECURSIVE groupNames(_, _)
groupNames(scores, names) ==
    IF scores = <<>> THEN names
    ELSE IF Head(scores).exercise = Absent
              \/ Head(scores).exercise[1].name \in Range(names)
         THEN groupNames(Tail(scores), names)
    ELSE groupNames(Tail(scores), Append(names, Head(scores).exercise[1].name))

\* exerciseGroups[exerciseName]
groupOf(scores, name) ==
    SelectSeq(scores, LAMBDA sc : sc.exercise # Absent /\ sc.exercise[1].name = name)

\* fault: every exercise is ranked by weight
metricWeightOnly(name, score) == OrZero(score.weight)

\* ExerciseRecords.tsx:107-128: what the group of a name is ranked by
metric(name, score) ==
    IF name = "Run" THEN OrZero(score.distance)
    ELSE IF name = "Assault Bike" THEN OrZero(score.calories)
    ELSE OrZero(score.weight)

\* scores.reduce((best, current) => m(current) > m(best) ? current : best, scores[0])
RECURSIVE reduceBest(_, _, _)
reduceBest(scores, best, name) ==
    IF scores = <<>> THEN best
    ELSE reduceBest(Tail(scores),
                    IF metric(name, Head(scores)) > metric(name, best)
                    THEN Head(scores) ELSE best,
                    name)

bestScores(scores) ==
    LET names == groupNames(scores, <<>>)
    IN  [i \in 1..Len(names) |->
            reduceBest(groupOf(scores, names[i]), groupOf(scores, names[i])[1], names[i])]

\* sort((a, b) => new Date(b.date).getTime() - new Date(a.date).getTime()):
\* newest first, equal dates in their earlier order
RECURSIVE insertByDate(_, _)
insertByDate(sorted, score) ==
    IF sorted = <<>> THEN <<score>>
    ELSE IF Head(sorted).date >= score.date
         THEN <<Head(sorted)>> \o insertByDate(Tail(sorted), score)
    ELSE <<score>> \o sorted

RECURSIVE sortByDate(_, _)
sortByDate(scores, sorted) ==
    IF scores = <<>> THEN sorted
    ELSE sortByDate(Tail(scores), insertByDate(sorted, Head(scores)))

\* ExerciseRecords.tsx:132-134: .slice(0, 5)
topRecords(best) ==
    LET sorted == sortByDate(best, <<>>)
    IN  SubSeq(sorted, 1, IF Len(sorted) < 5 THEN Len(sorted) ELSE 5)

\* ExerciseRecords.tsx:137-142: catch, then finally
RecordsFailed(p, c) ==
    /\ call' = [call EXCEPT ![p] = [c EXCEPT !.pc = "done", !.result = "caught"]]
    /\ recordsError' = Some("Failed to load exercise records. Please try again later.")
    /\ recordsLoading' = FALSE
    /\ UNCHANGED records

\* ExerciseRecords.tsx:76-136, then finally
RecordsComputed(p, c, workoutInfo) ==
    /\ records' = topRecords(bestScores(
                      [i \in 1..Len(c.scores) |->
                          enhance(c.scores[i], c.exercises, workoutInfo)]))
    /\ call' = [call EXCEPT ![p] = [c EXCEPT !.pc = "done", !.result = "ok"]]
    /\ recordsLoading' = FALSE
    /\ UNCHANGED recordsError

\* ExerciseRecords.tsx:26-36: the scores answer
FetchScores(p) ==
    /\ call[p].pc = "scores"
    /\ \E error \in Outcomes :
        LET c == [call[p] EXCEPT !.issued = Append(@, "select exercise_scores")]
            scores == SelectScores(exercise_scores)
        IN  IF thrown(error) THEN RecordsFailed(p, c)
            ELSE IF scores = <<>>
            THEN /\ records' = <<>>
                 /\ recordsLoading' = FALSE
                 /\ call' = [call EXCEPT ![p] = [c EXCEPT !.pc = "done", !.result = "ok"]]
                 /\ UNCHANGED recordsError
            ELSE /\ call' = [call EXCEPT ![p] = [c EXCEPT !.pc = "exercises",
                                                          !.scores = scores]]
                 /\ UNCHANGED leaderboard
    /\ UNCHANGED <<user, hookState, board>>

\* ExerciseRecords.tsx:42-57: the exercises answer
FetchExercises(p) ==
    /\ call[p].pc = "exercises"
    /\ \E error \in Outcomes :
        LET c == [call[p] EXCEPT !.issued = Append(@, "select exercises"),
                                 !.exercises = SelectExercises(call[p].scores)]
        IN  IF thrown(error) THEN RecordsFailed(p, c)
            ELSE IF workoutIds(c.scores) # {}
            THEN /\ call' = [call EXCEPT ![p] = [c EXCEPT !.pc = "workouts"]]
                 /\ UNCHANGED leaderboard
            ELSE RecordsComputed(p, c, <<>>)
    /\ UNCHANGED <<user, hookState, board>>

\* ExerciseRecords.tsx:58-74: the workout_logs answer
FetchWorkouts(p) ==
    /\ call[p].pc = "workouts"
    /\ \E error \in Outcomes :
        LET c == [call[p] EXCEPT !.issued = Append(@, "select workout_logs")]
        IN  IF thrown(error) THEN RecordsFailed(p, c)
            ELSE RecordsComputed(p, c, SelectWorkoutInfo(workout_logs,
                                                         workoutIds(c.scores)))
    /\ UNCHANGED <<user, hookState, board>>

NextRecords ==
    \/ \E p \in RecordsProcs : FetchScores(p)
    \/ \E p \in RecordsProcs : FetchExercises(p)
    \/ \E p \in RecordsProcs : FetchWorkouts(p)

SpecRecords == InitRecords /\ [][NextRecords]_vars

-----------------------------------------------------------------------------
(* Vocabulary of the properties *)

\* the positions <<i, j>> of the LoggedSets of a logs argument
Positions(logs) ==
    {ps \in (1..Len(logs)) \X (1..MaxSets) : ps[2] <= Len(logs[ps[1]].sets)}

RECURSIVE SetsBefore(_, _)
SetsBefore(logs, i) == IF i <= 1 THEN 0 ELSE SetsBefore(logs, i - 1) + Len(logs[i - 1].sets)

\* the place of position ps in the batch sent to the store
BatchIndex(logs, ps) == SetsBefore(logs, ps[1]) + ps[2]

SetAt(logs, ps) == logs[ps[1]].sets[ps[2]]

\* the identifiers the LoggedSets of logs carry
LogIds(logs) == {SetAt(logs, ps).id[1] : ps \in {q \in Positions(logs) : SetAt(logs, q).id # Absent}}
NewSets(logs) == {ps \in Positions(logs) : SetAt(logs, ps).id = Absent}

\* the ExerciseScore row a LoggedSet stands for
ImpliedRow(u, workoutLogId, logs, ps) ==
    [user_id |-> u, workout_log_id |-> workoutLogId,
     exercise_id |-> logs[ps[1]].exercise_id, weight |-> SetAt(logs, ps).weight,
     reps |-> SetAt(logs, ps).reps, distance |-> SetAt(logs, ps).distance,
     calories |-> SetAt(logs, ps).calories]

RowsOfLog(table, workoutLogId) ==
    {k \in DOMAIN table : table[k].workout_log_id = workoutLogId}

Succeeded(p, op) == call[p].op = op /\ call[p].pc = "done" /\ call[p].result = "ok"

\* the WorkoutLog row as a successful first step of the update leaves it
ExpectedLog(c) ==
    [c.preLogs[c.workoutLogId] EXCEPT
        !.notes = c.notes,
        !.score = calculateTotalScore(c.logs, c.workout),
        !.total = calculateTotalScore(c.logs, c.workout)]

-----------------------------------------------------------------------------
(* Properties *)

\* C1: after an updateWorkoutLog that completed successfully, the rows stored
\* for workoutLogId are exactly one row per LoggedSet of logs: every set has
\* its own row with the set's values (under the set's identifier if it carries
\* one), and the log has no other row.
C1_ExactlyOneRowPerSet ==
    \A p \in Procs : Succeeded(p, "updateWorkoutLog") =>
        LET c == call[p]
            rowOf(ps) == c.assigned[BatchIndex(c.logs, ps)]
        IN  /\ Len(c.assigned) = Cardinality(Positions(c.logs))
            /\ \A a, b \in Positions(c.logs) : a # b => rowOf(a) # rowOf(b)
            /\ RowsOfLog(exercise_scores, c.workoutLogId)
                  = {rowOf(ps) : ps \in Positions(c.logs)}
            /\ \A ps \in Positions(c.logs) :
                  /\ rowOf(ps) \in DOMAIN exercise_scores
                  /\ exercise_scores[rowOf(ps)]
                        = ImpliedRow(c.user, c.workoutLogId, c.logs, ps)
                  /\ SetAt(c.logs, ps).id # Absent => rowOf(ps) = SetAt(c.logs, ps).id[1]

\* a successful update that had a stored row to drop, a row to keep and a set to add
C1_Witness ==
    \E p \in Procs :
        /\ Succeeded(p, "updateWorkoutLog")
        /\ ~call[p].repeat
        /\ RowsOfLog(call[p].preScores, call[p].workoutLogId) \ LogIds(call[p].logs) # {}
        /\ RowsOfLog(call[p].preScores, call[p].workoutLogId) \cap LogIds(call[p].logs) # {}
        /\ NewSets(call[p].logs) # {}

\* C2: the rows updateWorkoutLog deletes are exactly the rows stored for the
\* log whose identifier no LoggedSet of logs carries (a row named in logs is
\* never deleted, not even for a moment), and on success the log's rows are
\* the rows named in logs plus one freshly created row per set without identifier.
C2_DeletesExactlyTheUnnamed ==
    \A p \in Procs :
        (/\ call[p].op = "updateWorkoutLog"
         /\ \/ call[p].pc = "up_upsert"
            \/ call[p].pc = "done" /\ call[p].result = "ok") =>
        LET c == call[p]
            existing == RowsOfLog(c.preScores, c.workoutLogId)
        IN  /\ DOMAIN c.preScores \ DOMAIN exercise_scores = existing \ LogIds(c.logs)
            /\ c.pc = "done" =>
                  /\ RowsOfLog(exercise_scores, c.workoutLogId)
                        = LogIds(c.logs) \cup (c.preNextScoreId..(nextScoreId - 1))
                  /\ nextScoreId - c.preNextScoreId = Cardinality(NewSets(c.logs))

\* rows {1, 2, 3}, logs naming 1 and 3 plus one new set: the log ends as {1, 3, 6}
C2_Witness ==
    \E p \in Procs :
        /\ Succeeded(p, "updateWorkoutLog")
        /\ RowsOfLog(call[p].preScores, call[p].workoutLogId) = {1, 2, 3}
        /\ LogIds(call[p].logs) = {1, 3}
        /\ Cardinality(Positions(call[p].logs)) = 3
        /\ Cardinality(NewSets(call[p].logs)) = 1
        /\ RowsOfLog(exercise_scores, call[p].workoutLogId) = {1, 3, call[p].preNextScoreId}
        /\ 2 \notin DOMAIN exercise_scores
        /\ call[p].preNextScoreId \notin DOMAIN call[p].preScores

\* C3: repeating a successful updateWorkoutLog with the same logs, each set
\* carrying the identifier its row got, leaves the stored rows as the first
\* call left them: same identifiers, same values, nothing added or removed.
C3_RepeatChangesNothing ==
    \A p \in Procs :
        (Succeeded(p, "updateWorkoutLog") /\ call[p].repeat) =>
            /\ exercise_scores = call[p].preScores
            /\ nextScoreId = call[p].preNextScoreId

\* a repeated update whose first call created a row and kept one
C3_Witness ==
    \E p \in Procs :
        /\ Succeeded(p, "updateWorkoutLog")
        /\ call[p].repeat
        /\ \E id \in LogIds(call[p].logs) : id >= 6
        /\ \E id \in LogIds(call[p].logs) : id < 6
        /\ Cardinality(RowsOfLog(exercise_scores, call[p].workoutLogId)) >= 2

\* C4: in logWorkout and updateWorkoutLog, an error returned by any store
\* call ends the call with exactly that error as its result, and once the call
\* has ended, with a value or with an error, the logging flag is false.
C4_StoreErrorPropagatesAndFlagResets ==
    \A p \in Procs : call[p].op \in {"logWorkout", "updateWorkoutLog"} =>
        /\ call[p].storeError # Absent =>
              /\ call[p].pc = "done"
              /\ call[p].result = call[p].storeError[1]
        /\ (call[p].pc = "done" /\ call[p].issued # <<>>) => logging = FALSE

\* a call that found the flag raised and ended with a store error
C4_Witness ==
    \E p \in Procs :
        /\ call[p].op \in {"logWorkout", "updateWorkoutLog"}
        /\ call[p].pc = "done"
        /\ call[p].storeError # Absent
        /\ call[p].storeError[1] \in StoreErrors
        /\ call[p].preLogging
        /\ ~logging

\* the store calls updateWorkoutLog has issued when it stops after n of them
UpdateCallOrder(c) ==
    <<"update workout_logs", "select exercise_scores">>
    \o (IF RowsOfLog(c.preScores, c.workoutLogId) \ LogIds(c.logs) # {}
        THEN <<"delete exercise_scores">> ELSE <<>>)
    \o <<"upsert exercise_scores">>

\* C5: when a step of updateWorkoutLog fails, the call ends with that error,
\* no later step has been issued, and what the earlier steps did stays: the
\* WorkoutLog row keeps its new notes and score once the first step succeeded,
\* and the rows deleted stay deleted when the upsert fails.
C5_FailedStepAbortsAndKeepsEarlierEffects ==
    \A p \in Procs :
        (call[p].op = "updateWorkoutLog" /\ call[p].storeError # Absent) =>
        LET c == call[p]
            n == Len(c.issued)
            existing == RowsOfLog(c.preScores, c.workoutLogId)
        IN  /\ c.pc = "done"
            /\ c.result = c.storeError[1]
            /\ n >= 1
            /\ n <= Len(UpdateCallOrder(c))
            /\ c.issued = SubSeq(UpdateCallOrder(c), 1, n)
            /\ nextLogId = Len(c.preLogs) + 1
            /\ IF n = 1
               THEN workout_logs = c.preLogs /\ exercise_scores = c.preScores
               ELSE /\ workout_logs = [c.preLogs EXCEPT ![c.workoutLogId] = ExpectedLog(c)]
                    /\ exercise_scores =
                         [k \in DOMAIN c.preScores \
                                  (IF c.issued[n] = "upsert exercise_scores"
                                   THEN existing \ LogIds(c.logs) ELSE {}) |->
                             c.preScores[k]]

\* the upsert failed after the delete removed a row and the first step
\* rewrote the notes
C5_Witness ==
    \E p \in Procs :
        /\ call[p].op = "updateWorkoutLog"
        /\ call[p].pc = "done"
        /\ call[p].storeError # Absent
        /\ call[p].issued = <<"update workout_logs", "select exercise_scores",
                              "delete exercise_scores", "upsert exercise_scores">>
        /\ DOMAIN exercise_scores # DOMAIN call[p].preScores
        /\ workout_logs[call[p].workoutLogId].notes
              # call[p].preLogs[call[p].workoutLogId].notes

\* C6: a successful logWorkout adds exactly one WorkoutLog row, holding the
\* user, the workout, the notes and the computed score, and exactly one
\* ExerciseScore row per LoggedSet, each holding the new log's identifier, the
\* exercise_id of the set's ExerciseLog and the set's values; every row stored
\* before is still there, unchanged.
C6_LogWorkoutAddsOneLogAndOneRowPerSet ==
    \A p \in Procs : Succeeded(p, "logWorkout") =>
        LET c == call[p]
            newLogs == DOMAIN workout_logs \ DOMAIN c.preLogs
            newRows == DOMAIN exercise_scores \ DOMAIN c.preScores
            rowOf(ps) == c.assigned[BatchIndex(c.logs, ps)]
        IN  /\ Cardinality(newLogs) = 1
            /\ \A k \in DOMAIN c.preLogs :
                  k \in DOMAIN workout_logs /\ workout_logs[k] = c.preLogs[k]
            /\ \A k \in newLogs :
                  /\ workout_logs[k] =
                        [user_id |-> c.user, workout_id |-> c.workout.id,
                         notes |-> c.notes,
                         score |-> calculateTotalScore(c.logs, c.workout),
                         total |-> calculateTotalScore(c.logs, c.workout)]
                  /\ \A ps \in Positions(c.logs) :
                        /\ rowOf(ps) \in newRows
                        /\ exercise_scores[rowOf(ps)] = ImpliedRow(c.user, k, c.logs, ps)
            /\ \A k \in DOMAIN c.preScores :
                  k \in DOMAIN exercise_scores /\ exercise_scores[k] = c.preScores[k]
            /\ Cardinality(newRows) = Cardinality(Positions(c.logs))
            /\ \A a, b \in Positions(c.logs) : a # b => rowOf(a) # rowOf(b)

\* a logWorkout over a store with rows, with sets under both exercises, one of
\* them carrying the identifier of a stored row
C6_Witness ==
    \E p \in Procs :
        /\ Succeeded(p, "logWorkout")
        /\ DOMAIN call[p].preScores # {}
        /\ Len(call[p].logs) = 2
        /\ \A i \in 1..2 : call[p].logs[i].sets # <<>>
        /\ LogIds(call[p].logs) \cap DOMAIN call[p].preScores # {}

\* C7: logWorkout ends with the store's error when either insert fails; when
\* the WorkoutLog insert fails nothing else is issued and the store is as
\* before; when the ExerciseScore insert fails the new WorkoutLog row stays,
\* with no ExerciseScore row.
C7_LogWorkoutFailureLeavesNoRollback ==
    \A p \in Procs :
        (call[p].op = "logWorkout" /\ call[p].storeError # Absent) =>
        LET c == call[p]
        IN  /\ c.pc = "done"
            /\ c.result = c.storeError[1]
            /\ exercise_scores = c.preScores
            /\ \/ /\ c.issued = <<"insert workout_logs">>
                  /\ workout_logs = c.preLogs
               \/ /\ c.issued = <<"insert workout_logs", "insert exercise_scores">>
                  /\ DOMAIN workout_logs = DOMAIN c.preLogs \cup {Len(c.preLogs) + 1}
                  /\ \A k \in DOMAIN c.preLogs : workout_logs[k] = c.preLogs[k]
                  /\ workout_logs[Len(c.preLogs) + 1] =
                        [user_id |-> c.user, workout_id |-> c.workout.id,
                         notes |-> c.notes,
                         score |-> calculateTotalScore(c.logs, c.workout),
                         total |-> calculateTotalScore(c.logs, c.workout)]
                  /\ RowsOfLog(exercise_scores, Len(c.preLogs) + 1) = {}

\* the ExerciseScore insert of a logWorkout with sets failed
C7_Witness ==
    \E p \in Procs :
        /\ call[p].op = "logWorkout"
        /\ call[p].pc = "done"
        /\ call[p].storeError # Absent
        /\ Len(call[p].issued) = 2
        /\ Positions(call[p].logs) # {}
        /\ DOMAIN workout_logs # DOMAIN call[p].preLogs

\* C8: an updateWorkoutLog by a signed-in user who does not own the log it
\* names changes neither the WorkoutLog row nor any ExerciseScore row of that
\* log, at any point of the call.
C8_NonOwnerChangesNothing ==
    \A p \in Procs :
        (/\ call[p].op = "updateWorkoutLog"
         /\ call[p].user # NoUser
         /\ call[p].workoutLogId \in DOMAIN call[p].preLogs
         /\ call[p].preLogs[call[p].workoutLogId].user_id # call[p].user) =>
        LET c == call[p]
        IN  /\ workout_logs[c.workoutLogId] = c.preLogs[c.workoutLogId]
            /\ RowsOfLog(exercise_scores, c.workoutLogId)
                  = RowsOfLog(c.preScores, c.workoutLogId)
            /\ \A k \in RowsOfLog(c.preScores, c.workoutLogId) :
                  exercise_scores[k] = c.preScores[k]

\* u2 asked to update log 1 of u1, with other notes and with logs that name
\* none of its three rows; the store answered and the call is over
C8_Witness ==
    \E p \in Procs :
        /\ call[p].op = "updateWorkoutLog"
        /\ call[p].pc = "done"
        /\ call[p].user = "u2"
        /\ call[p].workoutLogId = 1
        /\ 1 \in DOMAIN call[p].preLogs
        /\ call[p].preLogs[1].user_id = "u1"
        /\ call[p].notes # call[p].preLogs[1].notes
        /\ RowsOfLog(call[p].preScores, 1) \ LogIds(call[p].logs) # {}
        /\ call[p].result = NoRowsError

\* C9: startWorkoutLogging, logWorkout and updateWorkoutLog called with no
\* signed-in user end with the authentication error of the operation, having
\* issued no store call and with the store as they found it.
C9_NoUserNoStoreCall ==
    \A p \in Procs :
        (call[p].op # "none" /\ call[p].user = NoUser) =>
            /\ call[p].pc = "done"
            /\ call[p].result =
                  (CASE call[p].op = "startWorkoutLogging" -> "auth:start"
                     [] call[p].op = "logWorkout" -> "auth:log"
                     [] call[p].op = "updateWorkoutLog" -> "auth:update")
            /\ call[p].issued = <<>>
            /\ workout_logs = call[p].preLogs
            /\ exercise_scores = call[p].preScores
            /\ nextScoreId = call[p].preNextScoreId

\* an update of a stored log, with sets, asked for with nobody signed in
C9_Witness ==
    \E p \in Procs :
        /\ call[p].op = "updateWorkoutLog"
        /\ call[p].user = NoUser
        /\ call[p].pc = "done"
        /\ call[p].workoutLogId \in DOMAIN workout_logs
        /\ Positions(call[p].logs) # {}

RECURSIVE SeqSum(_)
SeqSum(ns) == IF ns = <<>> THEN 0 ELSE Head(ns) + SeqSum(Tail(ns))

ValueOrZero(x) == IF Len(x) = 0 THEN 0 ELSE x[1]

\* what the exercise log at position i is to add: by the name of the workout
\* exercise at that position, and nothing where the workout has none
Contribution(logs, workout, i) ==
    IF workout.workout_exercises = Absent \/ i > Len(workout.workout_exercises[1])
    THEN 0
    ELSE LET name == workout.workout_exercises[1][i].exercise.name
             sets == logs[i].sets
         IN  SeqSum([j \in 1..Len(sets) |->
                       IF name = "Run" THEN ValueOrZero(sets[j].distance)
                       ELSE IF name = "Assault Bike" THEN ValueOrZero(sets[j].calories)
                       ELSE ValueOrZero(sets[j].weight) * sets[j].reps])

ExpectedScore(logs, workout) ==
    SeqSum([i \in 1..Len(logs) |-> Contribution(logs, workout, i)])

\* C10: the computed score is the sum over the exercise logs of their
\* contributions: the distances of the sets under "Run", the calories under
\* "Assault Bike", weight x reps under any other name, an absent weight,
\* distance or calories counting 0 and a log without sets adding 0 (the name
\* is that of the workout exercise at the log's position; a log with none
\* there adds 0); the workout type changes nothing, so the weight-training and
\* the default branch agree.
C10_ScoreIsSumOfContributions ==
    \A p \in Procs : call[p].pc = "scored" =>
        /\ call[p].totalScore = ExpectedScore(call[p].logs, call[p].workout)
        /\ \A t \in ScoreTypes :
              calculateTotalScore(call[p].logs, [call[p].workout EXCEPT !.type = t])
                 = call[p].totalScore

\* a weight-training workout of a lift and a run: the lift's log has a set
\* with weight and one without, the run's log a set with distance
C10_Witness ==
    \E p \in Procs :
        /\ call[p].pc = "scored"
        /\ call[p].workout.type = "weight training"
        /\ call[p].workout.workout_exercises # Absent
        /\ Len(call[p].workout.workout_exercises[1]) = 2
        /\ call[p].workout.workout_exercises[1][1].exercise.name = "Bench Press"
        /\ call[p].workout.workout_exercises[1][2].exercise.name = "Run"
        /\ Len(call[p].logs) = 2
        /\ \E j \in 1..Len(call[p].logs[1].sets) : call[p].logs[1].sets[j].weight # Absent
        /\ \E j \in 1..Len(call[p].logs[1].sets) : call[p].logs[1].sets[j].weight = Absent
        /\ \E j \in 1..Len(call[p].logs[2].sets) : call[p].logs[2].sets[j].distance # Absent
        /\ call[p].totalScore = 11

\* the number of leading exercise logs that have a workout exercise at their position
Paired(logs, workout) ==
    IF workout.workout_exercises = Absent THEN 0
    ELSE IF Len(logs) <= Len(workout.workout_exercises[1]) THEN Len(logs)
    ELSE Len(workout.workout_exercises[1])

\* the sets of one exercise log totalled under the rule of an exercise name
NamedTotal(name, sets) ==
    SeqSum([j \in 1..Len(sets) |->
              IF name = "Run" THEN ValueOrZero(sets[j].distance)
              ELSE IF name = "Assault Bike" THEN ValueOrZero(sets[j].calories)
              ELSE ValueOrZero(sets[j].weight) * sets[j].reps])

\* C11: the score calculator pairs exercise logs with workout exercises by
\* position: the score is the sum, over the positions n that have a workout
\* exercise, of the nth log's sets totalled under the rule of the nth workout
\* exercise's name; the logs' exercise_ids do not enter it (any other
\* exercise_ids give the same score), and the logs past the workout's last
\* exercise, or all of them when the workout has no exercise sequence, add 0.
C11_PairsByPositionNotIdentity ==
    \A p \in Procs : call[p].pc = "scored" =>
        LET c == call[p]
            n == Paired(c.logs, c.workout)
        IN  /\ c.totalScore =
                  SeqSum([i \in 1..n |->
                            NamedTotal(c.workout.workout_exercises[1][i].exercise.name,
                                       c.logs[i].sets)])
            /\ \A ids \in [1..Len(ExerciseOrder) -> ExerciseIds] :
                  calculateTotalScore(Relabel(c.logs, ids), c.workout) = c.totalScore
            /\ calculateTotalScore(SubSeq(c.logs, 1, n), c.workout) = c.totalScore
            /\ c.workout.workout_exercises = Absent => c.totalScore = 0

\* a workout of one exercise, Run under id x1; the first log is of x2 and is
\* scored as the run, the second log is of x1, has distances, and adds nothing
C11_Witness ==
    \E p \in Procs :
        /\ call[p].pc = "scored"
        /\ call[p].workout.workout_exercises # Absent
        /\ Len(call[p].workout.workout_exercises[1]) = 1
        /\ call[p].workout.workout_exercises[1][1].exercise.name = "Run"
        /\ call[p].workout.workout_exercises[1][1].exercise_id = "x1"
        /\ Len(call[p].logs) = 2
        /\ call[p].logs[1].exercise_id = "x2"
        /\ call[p].logs[2].exercise_id = "x1"
        /\ Len(call[p].logs[1].sets) = 1
        /\ call[p].logs[1].sets[1].distance = Some(5)
        /\ Len(call[p].logs[2].sets) = 2
        /\ \A j \in 1..2 : call[p].logs[2].sets[j].distance = Some(1)
        /\ call[p].totalScore = 5

IsPrefix(s, t) == Len(s) <= Len(t) /\ s = SubSeq(t, 1, Len(s))

\* the place of a store call in the calls issued so far, 0 when not issued
IssuedAt(c, name) ==
    IF name \in Range(c.issued)
    THEN CHOOSE i \in 1..Len(c.issued) : c.issued[i] = name
    ELSE 0

\* C12: the store calls of one updateWorkoutLog are issued in the order
\* update, select, delete (when there are rows to delete), upsert, each at
\* most once and each only after the calls before it came back without error:
\* the delete is issued only after the select has completed, the upsert only
\* after the delete has completed successfully (when the select found rows to
\* delete), and never before it.
C12_UpdateThenSelectThenDeleteThenUpsert ==
    \A p \in Procs : call[p].op = "updateWorkoutLog" =>
        LET c == call[p]
            upsertAt == IssuedAt(c, "upsert exercise_scores")
            deleteAt == IssuedAt(c, "delete exercise_scores")
            selectAt == IssuedAt(c, "select exercise_scores")
        IN  /\ \/ IsPrefix(c.issued, <<"update workout_logs", "select exercise_scores",
                                       "delete exercise_scores", "upsert exercise_scores">>)
               \/ IsPrefix(c.issued, <<"update workout_logs", "select exercise_scores",
                                       "upsert exercise_scores">>)
            /\ IsPrefix(c.completed, c.issued)
            /\ Len(c.issued) <= Len(c.completed) + 1
            /\ deleteAt > 0 =>
                  /\ selectAt \in 1..(deleteAt - 1)
                  /\ selectAt <= Len(c.completed)
                  /\ c.scoreIdsToDelete # {}
            /\ upsertAt > 0 =>
                  /\ selectAt \in 1..(upsertAt - 1)
                  /\ selectAt <= Len(c.completed)
                  /\ c.scoreIdsToDelete # {} =>
                        /\ deleteAt \in 1..(upsertAt - 1)
                        /\ deleteAt <= Len(c.completed)
            /\ c.pc = "up_upsert" => c.scoreIdsToDelete \cap DOMAIN exercise_scores = {}

\* an update that issued all four calls, the delete having removed a row
\* before the upsert was issued
C12_Witness ==
    \E p \in Procs :
        /\ Succeeded(p, "updateWorkoutLog")
        /\ call[p].completed = <<"update workout_logs", "select exercise_scores",
                                 "delete exercise_scores", "upsert exercise_scores">>
        /\ call[p].scoreIdsToDelete # {}
        /\ call[p].scoreIdsToDelete \cap DOMAIN exercise_scores = {}

\* the rows stored for the log of call c are exactly the rows its logs
\* argument implies, one per LoggedSet, and the WorkoutLog row holds the score
\* of that logs argument
LogIsAsCallLeftIt(c) ==
    LET rowOf(ps) == c.assigned[BatchIndex(c.logs, ps)]
    IN  /\ Len(c.assigned) = Cardinality(Positions(c.logs))
        /\ \A a, b \in Positions(c.logs) : a # b => rowOf(a) # rowOf(b)
        /\ RowsOfLog(exercise_scores, c.workoutLogId)
              = {rowOf(ps) : ps \in Positions(c.logs)}
        /\ \A ps \in Positions(c.logs) :
              /\ rowOf(ps) \in DOMAIN exercise_scores
              /\ exercise_scores[rowOf(ps)]
                    = ImpliedRow(c.user, c.workoutLogId, c.logs, ps)
        /\ workout_logs[c.workoutLogId].score = calculateTotalScore(c.logs, c.workout)

\* C13: when two updateWorkoutLog calls for the same WorkoutLog have both
\* completed without a failure, in whatever order the store took their calls,
\* the ExerciseScore rows of that log are exactly the rows implied by the logs
\* argument of one of the two calls, and the WorkoutLog row's score is the
\* score of that same logs argument.
C13_InterleavedUpdatesLeaveOneCallsRows ==
    \A p, q \in ConcurrentProcs :
        (/\ p # q
         /\ Succeeded(p, "updateWorkoutLog")
         /\ Succeeded(q, "updateWorkoutLog")
         /\ call[p].workoutLogId = call[q].workoutLogId) =>
            \/ LogIsAsCallLeftIt(call[p])
            \/ LogIsAsCallLeftIt(call[q])

\* C14: once no handlePostMessage is pending, every message whose insert
\* succeeded is in the displayed list, also when several posts were in flight
\* together; a post with no signed-in user or with a blank message has issued
\* no insert and has put nothing into the list (every message displayed was
\* fetched at mount or is the row of a post whose insert succeeded).
C14_EveryPostedMessageIsDisplayed ==
    /\ (\A p \in BoardProcs : call[p].pc \in {"idle", "done"}) =>
          \A p \in BoardProcs : call[p].result = "ok" =>
              \E i \in 1..Len(messages) : messages[i] = call[p].data[1]
    /\ \A p \in BoardProcs :
          (/\ call[p].op = "handlePostMessage"
           /\ call[p].user = NoUser \/ trim(call[p].newMessage) = <<>>) =>
              /\ call[p].pc = "done"
              /\ call[p].issued = <<>>
              /\ call[p].data = Absent
    /\ \A i \in 1..Len(messages) :
          \/ messages[i].id < nextMessageId - Cardinality({p \in BoardProcs : call[p].result = "ok"})
          \/ \E p \in BoardProcs : call[p].result = "ok" /\ call[p].data[1] = messages[i]

\* the stored score rows whose exercise is known and has this name
RowsNamed(name) ==
    {k \in DOMAIN exercise_scores :
        /\ exercise_scores[k].exercise_id \in DOMAIN ExercisesTable
        /\ ExercisesTable[exercise_scores[k].exercise_id].name = name}

\* distance for "Run", calories for "Assault Bike", weight otherwise
RecordMetric(name, row) ==
    IF name = "Run" THEN ValueOrZero(row.distance)
    ELSE IF name = "Assault Bike" THEN ValueOrZero(row.calories)
    ELSE ValueOrZero(row.weight)

\* C15: after a successful fetch the records shown are at most 5, no two of
\* them of the same exercise name, and each is a stored score row of a known
\* exercise whose metric (distance for "Run", calories for "Assault Bike",
\* weight otherwise, absent counted as 0) is the maximum over the stored rows
\* of that exercise name; a row whose exercise is unknown is in no entry.
C15_RecordsAreGroupMaxima ==
    \A p \in RecordsProcs :
        (/\ call[p].op = "fetchExerciseRecords"
         /\ call[p].pc = "done"
         /\ call[p].result = "ok") =>
            /\ Len(records) <= 5
            /\ \A i \in 1..Len(records) :
                  LET r == records[i]
                  IN  /\ r.id \in DOMAIN exercise_scores
                      /\ r.exercise_id = exercise_scores[r.id].exercise_id
                      /\ r.weight = exercise_scores[r.id].weight
                      /\ r.distance = exercise_scores[r.id].distance
                      /\ r.calories = exercise_scores[r.id].calories
                      /\ r.exercise_id \in DOMAIN ExercisesTable
                      /\ r.exercise = Some([id |-> r.exercise_id,
                                            name |-> ExercisesTable[r.exercise_id].name])
                      /\ \A k \in RowsNamed(r.exercise[1].name) :
                            RecordMetric(r.exercise[1].name, exercise_scores[k])
                               <= RecordMetric(r.exercise[1].name, exercise_scores[r.id])
                      /\ \A j \in 1..Len(records) :
                            i # j => records[j].exercise # r.exercise
                                     /\ records[j].exercise[1].name # r.exercise[1].name

\* every row of the universe is stored, log 1 too: six exercise names and
\* five records, "Run" with the oldest best row being cut; the Assault Bike
\* record is the row with calories, dated by its workout log, and the heaviest
\* row of all, of an unknown exercise, is not among the records
C15_Witness ==
    \E p \in RecordsProcs :
        /\ call[p].op = "fetchExerciseRecords"
        /\ call[p].pc = "done"
        /\ call[p].result = "ok"
        /\ DOMAIN exercise_scores = DOMAIN ScoreUniverse
        /\ workout_logs # <<>>
        /\ Len(records) = 5
        /\ Cardinality({ExercisesTable[id].name : id \in DOMAIN ExercisesTable}) = 6
        /\ 11 \in DOMAIN exercise_scores
        /\ \A i \in 1..Len(records) : records[i].id # 11
        /\ \A i \in 1..Len(records) : records[i].exercise[1].name # "Run"
        /\ \E i \in 1..Len(records) :
              /\ records[i].exercise[1].name = "Assault Bike"
              /\ records[i].calories = Some(4)
              /\ records[i].date # records[i].created_at

=============================================================================
